---- MODULE Spec2Model ----
(***************************************************************************)
(* A model of UnifyGenerator (integrations/unify, unify.py): construction, *)
(* run, to_dict and from_dict, with the collaborators the component calls  *)
(* (os.environ, haystack's Secret, the Unify client) as its environment.   *)
(*                                                                         *)
(* Python values are modelled as follows.  A dict is a function whose      *)
(* domain is the set of its keys.  An Optional[T] is a sequence of length  *)
(* at most one: <<>> is None (or an omitted argument), <<x>> is x.  An     *)
(* exception is the name of its class, "" when none was raised.            *)
(***************************************************************************)
EXTENDS Integers, Sequences, FiniteSets, TLC

VARIABLES
    env,    \* os.environ, restricted to the variables the model reads
    self,   \* Optional[UnifyGenerator]: the component, once constructed
    op,     \* the name of the last call made by the framework, "" before any
    args,   \* that call's arguments, as the caller holds them after the call
    ret,    \* Optional: the value that call returned
    exc,    \* the exception that call raised, "" when it returned
    calls   \* the calls that call made on the unify package, in order

vars == <<env, self, op, args, ret, exc, calls>>

(***************************************************************************)
(* Bounds and input sets.                                                  *)
(***************************************************************************)

\* An options mapping handed to the component holds at most MaxKeys options.
MaxKeys == 1

None == <<>>
Some(x) == <<x>>
EmptyDict == [k \in {} |-> 0]

\* Option names a caller may pass: the two allow-listed ones and one that is not.
OptionNames == {"max_tokens", "temperature", "top_p"}
OptionValues == {1, 2}
Dicts ==
    UNION {[S -> OptionValues] : S \in {T \in SUBSET OptionNames : Cardinality(T) <= MaxKeys}}
OptionalDicts == {None} \cup {Some(d) : d \in Dicts}

EnvNames == {"UNIFY_API_KEY", "CUSTOM_KEY"}
SecretIn(name) == IF name = "UNIFY_API_KEY" THEN "sk-unify" ELSE "sk-custom"
Environs == {[n \in S |-> SecretIn(n)] : S \in SUBSET EnvNames}

ModelArgs == {None, Some("llama-2-7b-chat@anyscale")}
CallbackArgs == {None, Some("print_chunk")}
Prompts == {"hello"}

(***************************************************************************)
(* The module's namespace (lines 1-9): the names a global lookup finds.    *)
(* A lookup of any other name that is not a builtin raises NameError.      *)
(***************************************************************************)
ModuleGlobals ==
    {"Any", "Callable", "ClassVar", "Dict", "List", "Optional",
     "component", "default_from_dict", "default_to_dict", "logging",
     "Secret", "Unify", "logger", "UnifyGenerator"}

ALLOWED_PARAMS == <<"max_tokens", "temperature">>

DEFAULT_MODEL == "mistral-7b-instruct-v0.2@fireworks-ai"

(***************************************************************************)
(* haystack.utils.Secret, as the component uses it.                        *)
(***************************************************************************)

\* Secret.from_env_var(name): an environment-variable secret, strict by default.
from_env_var(name) == [_env_vars |-> <<name>>, _strict |-> TRUE]

\* The default of __init__'s api_key parameter.
DEFAULT_API_KEY == from_env_var("UNIFY_API_KEY")

ApiKeyArgs == {None, Some(from_env_var("CUSTOM_KEY"))}

\* secret.resolve_value(): the first variable that is set; a strict secret
\* raises ValueError when none is.
resolve_value(secret, environ) ==
    LET set == {i \in 1..Len(secret._env_vars) : secret._env_vars[i] \in DOMAIN environ}
    IN  IF set # {}
        THEN [exc |-> "", value |-> Some(environ[secret._env_vars[CHOOSE i \in set : \A j \in set : i <= j]])]
        ELSE IF secret._strict
             THEN [exc |-> "ValueError", value |-> None]
             ELSE [exc |-> "", value |-> None]

\* secret.to_dict(): the serializable reference form of the secret.
secret_to_dict(secret) ==
    [type |-> "env_var", env_vars |-> secret._env_vars, strict |-> secret._strict]

\* Secret.from_dict(d)
secret_from_dict(d) == [_env_vars |-> d.env_vars, _strict |-> d.strict]

(***************************************************************************)
(* UnifyGenerator.__init__                                                 *)
(***************************************************************************)

\* The call __init__ makes on the unify package: Unify(model=..., api_key=...).
UnifyCall(model, key) == [fn |-> "Unify", model |-> model, api_key |-> key]

\* The handle Unify(model=..., api_key=...) returns: it holds what it was given.
Unify(model, key) == [model |-> model, api_key |-> key]

\* x or {}
OrEmpty(x) == IF x = None \/ DOMAIN x[1] = {} THEN EmptyDict ELSE x[1]

\* A UnifyGenerator instance: the attributes __init__ assigns (lines 31-35).
UnifyGenerator(api_key, model, generation_kwargs, streaming_callback, client) ==
    [api_key |-> api_key,
     model |-> model,
     generation_kwargs |-> generation_kwargs,
     streaming_callback |-> streaming_callback,
     client |-> client]

\* A faulty variant of __init__: the handle is built first and the credential resolved
\* while the handle is set up.
init_client_first(api_key, model, streaming_callback, generation_kwargs, environ) ==
    LET key == IF api_key = None THEN DEFAULT_API_KEY ELSE api_key[1]
        mod == IF model = None THEN DEFAULT_MODEL ELSE model[1]
        resolved == resolve_value(key, environ)
    IN  IF resolved.exc # ""
        THEN [exc |-> resolved.exc, self |-> None, calls |-> <<UnifyCall(mod, None)>>]
        ELSE [exc |-> "",
              self |-> Some(UnifyGenerator(key, mod, OrEmpty(generation_kwargs),
                                  streaming_callback, Unify(mod, resolved.value))),
              calls |-> <<UnifyCall(mod, resolved.value)>>]

\* __init__(self, api_key, model, streaming_callback, generation_kwargs), with
\* omitted arguments as None.  The arguments of Unify(...) are evaluated before
\* Unify is called, so a failing resolve_value() leaves Unify uncalled.
__init__(api_key, model, streaming_callback, generation_kwargs, environ) ==
    LET key == IF api_key = None THEN DEFAULT_API_KEY ELSE api_key[1]
        mod == IF model = None THEN DEFAULT_MODEL ELSE model[1]
        resolved == resolve_value(key, environ)
    IN  IF resolved.exc # ""
        THEN [exc |-> resolved.exc, self |-> None, calls |-> <<>>]
        ELSE [exc |-> "",
              self |-> Some(UnifyGenerator(key, mod, OrEmpty(generation_kwargs),
                                  streaming_callback, Unify(mod, resolved.value))),
              calls |-> <<UnifyCall(mod, resolved.value)>>]

(***************************************************************************)
(* UnifyGenerator.to_dict and UnifyGenerator.from_dict                     *)
(***************************************************************************)

\* Whether evaluating the global name raises NameError.
Undefined(name) == name \notin ModuleGlobals

\* haystack's serialize_callable(f): the import path of f.
serialize_callable(f) == [import_path |-> f]

CLASS_NAME == "unify.UnifyGenerator"

\* haystack's default_to_dict(obj, **init_parameters)
default_to_dict(init_parameters) ==
    [type |-> CLASS_NAME, init_parameters |-> init_parameters]

\* A faulty variant of to_dict_mapping: the credential is exported resolved, in the
\* form of a token secret.
to_dict_mapping_resolved(c, callback_name) ==
    default_to_dict([model |-> c.model,
                     streaming_callback |-> callback_name,
                     generation_kwargs |-> c.generation_kwargs,
                     api_key |-> [type |-> "token", token |-> c.client.api_key[1]]])

\* The mapping to_dict builds once callback_name is known (lines 42-48).
to_dict_mapping(c, callback_name) ==
    default_to_dict([model |-> c.model,
                     streaming_callback |-> callback_name,
                     generation_kwargs |-> c.generation_kwargs,
                     api_key |-> secret_to_dict(c.api_key)])

\* to_dict(self).  The conditional expression of line 41 evaluates the name
\* serialize_callable only when self.streaming_callback is truthy.
to_dict(c) ==
    IF c.streaming_callback # None
    THEN IF Undefined("serialize_callable")
         THEN [exc |-> "NameError", ret |-> None]
         ELSE [exc |-> "",
               ret |-> Some(to_dict_mapping(c, Some(serialize_callable(c.streaming_callback[1]))))]
    ELSE [exc |-> "", ret |-> Some(to_dict_mapping(c, None))]

\* haystack's deserialize_secrets_inplace(data, keys=["api_key"]): a key that
\* is present is replaced by the Secret it describes.
deserialize_secrets_inplace(p) ==
    IF "api_key" \in DOMAIN p
    THEN [p EXCEPT !.api_key = secret_from_dict(p.api_key)]
    ELSE p

\* An init parameter of the persisted state, None when the key is absent.
Param(p, k) == IF k \in DOMAIN p THEN p[k] ELSE None

\* from_dict(cls, data).  Line 55 evaluates the name
\* deserialize_secrets_inplace before its arguments; line 56 hands the
\* init parameters to __init__ by keyword.
from_dict(data, environ) ==
    IF Undefined("deserialize_secrets_inplace")
    THEN [exc |-> "NameError", ret |-> None, calls |-> <<>>, data |-> data]
    ELSE IF "init_parameters" \notin DOMAIN data
    THEN [exc |-> "KeyError", ret |-> None, calls |-> <<>>, data |-> data]
    ELSE LET p == deserialize_secrets_inplace(data.init_parameters)
             made == __init__(IF "api_key" \in DOMAIN p THEN Some(p.api_key) ELSE None,
                              IF "model" \in DOMAIN p THEN Some(p.model) ELSE None,
                              Param(p, "streaming_callback"),
                              IF "generation_kwargs" \in DOMAIN p
                              THEN Some(p.generation_kwargs) ELSE None,
                              environ)
         IN  [exc |-> made.exc, ret |-> made.self, calls |-> made.calls,
              data |-> [data EXCEPT !.init_parameters = p]]

(***************************************************************************)
(* UnifyGenerator.run                                                      *)
(***************************************************************************)

\* A faulty variant of merged_kwargs: {**(generation_kwargs or {}), **self.generation_kwargs}
merged_kwargs_defaults_win(defaults, generation_kwargs) ==
    LET given == OrEmpty(generation_kwargs)
    IN  [k \in DOMAIN defaults \cup DOMAIN given |->
            IF k \in DOMAIN defaults THEN defaults[k] ELSE given[k]]

\* {**self.generation_kwargs, **(generation_kwargs or {})}  (line 68)
merged_kwargs(defaults, generation_kwargs) ==
    LET given == OrEmpty(generation_kwargs)
    IN  [k \in DOMAIN defaults \cup DOMAIN given |->
            IF k \in DOMAIN given THEN given[k] ELSE defaults[k]]

\* A faulty variant of filtered_kwargs: the merged mapping is forwarded whole.
filtered_kwargs_unfiltered(kwargs) == kwargs

\* {k: v for k, v in generation_kwargs.items() if k in self.ALLOWED_PARAMS}
filtered_kwargs(kwargs) ==
    [k \in {n \in DOMAIN kwargs : \E i \in 1..Len(ALLOWED_PARAMS) : ALLOWED_PARAMS[i] = n}
        |-> kwargs[k]]

\* The call run makes on the client: generate(prompt=prompt, **filtered_kwargs).
\* `result` is what the client answered: an exception or a response.
GenerateCall(prompt, kwargs, result) ==
    [fn |-> "generate", prompt |-> prompt, kwargs |-> kwargs, result |-> result]

\* A faulty variant of run_result: the provider's meta is not passed on.
run_result_without_meta(response) ==
    [replies |-> <<response.text>>, meta |-> EmptyDict]

\* {"replies": [response["text"]], "meta": response.get("meta", {})}
run_result(response) ==
    [replies |-> <<response.text>>,
     meta |-> IF "meta" \in DOMAIN response THEN response.meta ELSE EmptyDict]

\* What the client's generate does with a call: it raises, or returns a mapping.
ProviderOutcomes ==
    {[exc |-> "ProviderError", response |-> EmptyDict],
     [exc |-> "", response |-> [text |-> "hi", meta |-> [tokens |-> 2]]],
     [exc |-> "", response |-> [text |-> "hi there"]],
     [exc |-> "", response |-> [meta |-> [tokens |-> 2]]]}

\* A faulty variant of run: a failed generate call is made once more, and a second
\* failure is answered with an empty reply.
run_retrying(c, prompt, generation_kwargs, provider) ==
    LET filtered == filtered_kwargs(merged_kwargs(c.generation_kwargs, generation_kwargs))
        call == GenerateCall(prompt, filtered, provider)
        frame == [self |-> c, generation_kwargs |-> generation_kwargs]
    IN  IF provider.exc # ""
        THEN [exc |-> "", ret |-> Some([replies |-> <<"">>, meta |-> EmptyDict]),
              calls |-> <<call, call>>] @@ frame
        ELSE IF "text" \notin DOMAIN provider.response
        THEN [exc |-> "KeyError", ret |-> None, calls |-> <<call>>] @@ frame
        ELSE [exc |-> "", ret |-> Some(run_result(provider.response)),
              calls |-> <<call>>] @@ frame

\* A faulty variant of run: the call-time options are merged into the component's
\* defaults in place (self.generation_kwargs.update(generation_kwargs or {})).
run_updating_defaults(c, prompt, generation_kwargs, provider) ==
    LET merged == merged_kwargs(c.generation_kwargs, generation_kwargs)
        filtered == filtered_kwargs(merged)
        made == <<GenerateCall(prompt, filtered, provider)>>
        frame == [self |-> [c EXCEPT !.generation_kwargs = merged],
                  generation_kwargs |-> generation_kwargs, calls |-> made]
    IN  IF provider.exc # ""
        THEN [exc |-> provider.exc, ret |-> None] @@ frame
        ELSE IF "text" \notin DOMAIN provider.response
        THEN [exc |-> "KeyError", ret |-> None] @@ frame
        ELSE [exc |-> "", ret |-> Some(run_result(provider.response))] @@ frame

\* run(self, prompt, generation_kwargs) against a client that answers the
\* generate call with `provider`.  The result names the component and the
\* caller's mapping as they are when run ends.
run(c, prompt, generation_kwargs, provider) ==
    LET filtered == filtered_kwargs(merged_kwargs(c.generation_kwargs, generation_kwargs))
        made == <<GenerateCall(prompt, filtered, provider)>>
        frame == [self |-> c, generation_kwargs |-> generation_kwargs, calls |-> made]
    IN  IF provider.exc # ""
        THEN [exc |-> provider.exc, ret |-> None] @@ frame
        ELSE IF "text" \notin DOMAIN provider.response
        THEN [exc |-> "KeyError", ret |-> None] @@ frame
        ELSE [exc |-> "", ret |-> Some(run_result(provider.response))] @@ frame

(***************************************************************************)
(* The framework's calls                                                   *)
(***************************************************************************)

Init ==
    /\ env \in Environs
    /\ self = None
    /\ op = ""
    /\ args = <<>>
    /\ ret = None
    /\ exc = ""
    /\ calls = <<>>

\* UnifyGenerator(api_key=..., model=..., streaming_callback=..., generation_kwargs=...)
Construct ==
    /\ op = ""
    /\ \E api_key \in ApiKeyArgs, model \in ModelArgs,
          streaming_callback \in CallbackArgs, generation_kwargs \in OptionalDicts :
        LET made == __init__(api_key, model, streaming_callback, generation_kwargs, env)
        IN  /\ op' = "__init__"
            /\ args' = [api_key |-> api_key, model |-> model,
                        streaming_callback |-> streaming_callback,
                        generation_kwargs |-> generation_kwargs]
            /\ self' = made.self
            /\ ret' = made.self
            /\ exc' = made.exc
            /\ calls' = made.calls
    /\ UNCHANGED env

\* component.run(prompt, generation_kwargs)
Run ==
    /\ self # None
    /\ \E prompt \in Prompts, generation_kwargs \in OptionalDicts,
          provider \in ProviderOutcomes :
        LET done == run(self[1], prompt, generation_kwargs, provider)
        IN  /\ op' = "run"
            /\ args' = [prompt |-> prompt,
                        given |-> generation_kwargs,
                        generation_kwargs |-> done.generation_kwargs]
            /\ self' = Some(done.self)
            /\ ret' = done.ret
            /\ exc' = done.exc
            /\ calls' = done.calls
    /\ UNCHANGED env

\* component.to_dict()
ToDict ==
    /\ self # None
    /\ LET done == to_dict(self[1])
       IN  /\ op' = "to_dict"
           /\ args' = <<>>
           /\ ret' = done.ret
           /\ exc' = done.exc
           /\ calls' = <<>>
    /\ UNCHANGED <<env, self>>

\* The persisted states the framework may hand to from_dict for a component
\* like c: the full mapping, one without the credential reference, and one
\* without init_parameters.
PersistedStates(c) ==
    LET callback_name == IF c.streaming_callback = None THEN None
                         ELSE Some(serialize_callable(c.streaming_callback[1]))
        full == to_dict_mapping(c, callback_name)
        p == full.init_parameters
    IN  {full,
         [full EXCEPT !.init_parameters =
             [k \in DOMAIN p \ {"api_key"} |-> p[k]]],
         [type |-> CLASS_NAME]}

\* UnifyGenerator.from_dict(data)
FromDict ==
    /\ self # None
    /\ \E data \in PersistedStates(self[1]) :
        LET done == from_dict(data, env)
        IN  /\ op' = "from_dict"
            /\ args' = [given |-> data, data |-> done.data]
            /\ ret' = done.ret
            /\ exc' = done.exc
            /\ calls' = done.calls
    /\ UNCHANGED <<env, self>>

Next == Construct \/ Run \/ ToDict \/ FromDict

Spec == Init /\ [][Next]_vars

(***************************************************************************)
(* Properties                                                              *)
(***************************************************************************)

Allowed == {"max_tokens", "temperature"}

\* The component's defaults and the options of the last run, as mappings.
Defaults == self[1].generation_kwargs
Given == IF args.given = None THEN EmptyDict ELSE args.given[1]

\* The options the last run passed to generate.
Forwarded == calls[1].kwargs

\* C1: every run passes to generate exactly the allow-listed option names of
\* the merged (defaults and call-time) mapping: any other name is dropped,
\* the call is still made, and no allow-listed name is lost.
C1_OnlyAllowListedForwarded ==
    op = "run" =>
        /\ Len(calls) >= 1
        /\ calls[1].fn = "generate"
        /\ DOMAIN Forwarded \subseteq Allowed
        /\ DOMAIN Forwarded = (DOMAIN Defaults \cup DOMAIN Given) \cap Allowed

\* C1's case: the merged mapping holds a name outside the allow-list beside
\* an allow-listed one, and only the latter was forwarded.
C1_Witness ==
    /\ op = "run"
    /\ "top_p" \in DOMAIN Defaults \cup DOMAIN Given
    /\ DOMAIN Forwarded # {}

\* C2: for every allow-listed option name, the value forwarded is the
\* call-time value when the call gives one, else the default when there is
\* one, and the name is not forwarded when neither gives it.
C2_CallTimeOverridesDefault ==
    op = "run" =>
        \A k \in Allowed :
            /\ k \in DOMAIN Given => k \in DOMAIN Forwarded /\ Forwarded[k] = Given[k]
            /\ (k \notin DOMAIN Given /\ k \in DOMAIN Defaults) =>
                   k \in DOMAIN Forwarded /\ Forwarded[k] = Defaults[k]
            /\ (k \notin DOMAIN Given /\ k \notin DOMAIN Defaults) =>
                   k \notin DOMAIN Forwarded

\* C2's case: the defaults and the call give the same allow-listed name
\* different values.
C2_Witness ==
    /\ op = "run"
    /\ \E k \in Allowed :
        /\ k \in DOMAIN Given \cap DOMAIN Defaults
        /\ Given[k] # Defaults[k]
        /\ Forwarded[k] = Given[k]

\* The provider answered the last run's generate call with a mapping that
\* has a text key.
AnsweredWithText ==
    /\ op = "run"
    /\ Len(calls) >= 1
    /\ calls[1].result.exc = ""
    /\ "text" \in DOMAIN calls[1].result.response

\* C3: when generate returns a mapping with a text key, run returns
\* {replies: [text], meta: M} with exactly one reply, M the response's meta
\* when it has one and the empty mapping otherwise.
C3_ResultShape ==
    AnsweredWithText =>
        LET response == calls[1].result.response
        IN  /\ exc = ""
            /\ ret # None
            /\ DOMAIN ret[1] = {"replies", "meta"}
            /\ Len(ret[1].replies) = 1
            /\ ret[1].replies[1] = response.text
            /\ "meta" \in DOMAIN response => ret[1].meta = response.meta
            /\ "meta" \notin DOMAIN response => DOMAIN ret[1].meta = {}

\* C3's case: a response with text and meta was returned.
C3_Witness ==
    /\ AnsweredWithText
    /\ "meta" \in DOMAIN calls[1].result.response
    /\ ret # None

\* C4: every run calls generate exactly once; when that call fails, run ends
\* with the same failure and returns nothing.
C4_OneCallFailurePropagates ==
    op = "run" =>
        /\ Len(calls) = 1
        /\ calls[1].fn = "generate"
        /\ calls[1].result.exc # "" => exc = calls[1].result.exc /\ ret = None

\* C4's case: the provider failed.
C4_Witness ==
    /\ op = "run"
    /\ Len(calls) = 1
    /\ calls[1].result.exc = "ProviderError"
    /\ exc = "ProviderError"

\* The environment variables the credential given to the last construction
\* names (the default credential when none was given).
NamedVars ==
    LET given == IF args.api_key = None THEN <<"UNIFY_API_KEY">> ELSE args.api_key[1]._env_vars
    IN  {given[i] : i \in 1..Len(given)}

\* C5: construction with no resolvable credential (none given and
\* UNIFY_API_KEY unset, or one given whose variable is unset) fails with the
\* credential's resolution failure, the unify package was not called, and
\* there is no component.
C5_NoCredentialFailsFirst ==
    (op = "__init__" /\ NamedVars \cap DOMAIN env = {}) =>
        /\ exc = "ValueError"
        /\ calls = <<>>
        /\ self = None
        /\ ret = None

\* C5's case: nothing given, UNIFY_API_KEY unset.
C5_Witness ==
    /\ op = "__init__"
    /\ args.api_key = None
    /\ "UNIFY_API_KEY" \notin DOMAIN env
    /\ exc = "ValueError"

\* C6: to_dict followed by from_dict on the exported mapping succeeds and
\* yields a component with the same model id and default options.
C6_RoundTrip ==
    (op = "from_dict" /\ to_dict(self[1]).exc = "" /\ args.given = to_dict(self[1]).ret[1]) =>
        /\ exc = ""
        /\ ret # None
        /\ ret[1].model = self[1].model
        /\ ret[1].generation_kwargs = self[1].generation_kwargs

\* The strings an exported mapping holds (option values are numbers).
ExportedStrings(m) ==
    LET p == m.init_parameters
    IN  {m.type, p.model}
        \cup (IF p.streaming_callback = None THEN {} ELSE {p.streaming_callback[1].import_path})
        \cup {p.api_key[k] : k \in DOMAIN p.api_key \ {"env_vars", "strict"}}
        \cup (IF "env_vars" \in DOMAIN p.api_key
              THEN {p.api_key.env_vars[i] : i \in 1..Len(p.api_key.env_vars)}
              ELSE {})

\* C7: the mapping to_dict returns holds under api_key the credential's
\* reference form (the names of its environment variables), and the secret
\* value the client was given is nowhere in the mapping.
C7_ExportHoldsNoSecret ==
    (op = "to_dict" /\ exc = "") =>
        /\ ret # None
        /\ DOMAIN ret[1].init_parameters.api_key = {"type", "env_vars", "strict"}
        /\ ret[1].init_parameters.api_key.type = "env_var"
        /\ ret[1].init_parameters.api_key.env_vars = self[1].api_key._env_vars
        /\ self[1].client.api_key[1] \notin ExportedStrings(ret[1])

\* C7's case: a component whose client holds a resolved secret was exported.
C7_Witness ==
    /\ op = "to_dict"
    /\ exc = ""
    /\ ret # None
    /\ self[1].client.api_key = Some("sk-custom")

\* The failures that are configuration errors.
ConfigurationErrors == {"DeserializationError", "ValueError"}

\* C8: from_dict on a state whose init_parameters lack the credential
\* reference fails with a configuration error and yields no component.
C8_MissingCredentialIsConfigurationError ==
    (/\ op = "from_dict"
     /\ "init_parameters" \in DOMAIN args.given
     /\ "api_key" \notin DOMAIN args.given.init_parameters) =>
        /\ exc \in ConfigurationErrors
        /\ ret = None

\* C9: to_dict succeeds for every component and returns the keys model,
\* streaming_callback, generation_kwargs and api_key, streaming_callback
\* being the callback's serialized reference when there is a callback and
\* None when there is none.
C9_ExportSucceeds ==
    op = "to_dict" =>
        /\ exc = ""
        /\ ret # None
        /\ DOMAIN ret[1].init_parameters =
               {"model", "streaming_callback", "generation_kwargs", "api_key"}
        /\ ret[1].init_parameters.streaming_callback =
               (IF self[1].streaming_callback = None THEN None
                ELSE Some(serialize_callable(self[1].streaming_callback[1])))

\* C10: once constructed, the component is never changed by a call; a run
\* forwards what the component's unchanged defaults and that run's own
\* options give; and the caller's options mapping is as it was given.
C10_ConfigurationUnchanged ==
    [][self # None =>
        /\ self' = self
        /\ op' = "run" =>
            /\ args'.generation_kwargs = args'.given
            /\ \A k \in Allowed :
                LET given == IF args'.given = None THEN EmptyDict ELSE args'.given[1]
                    kwargs == calls'[1].kwargs
                IN  /\ k \in DOMAIN given => k \in DOMAIN kwargs /\ kwargs[k] = given[k]
                    /\ (k \notin DOMAIN given /\ k \in DOMAIN self[1].generation_kwargs) =>
                           k \in DOMAIN kwargs /\ kwargs[k] = self[1].generation_kwargs[k]
                    /\ (k \notin DOMAIN given /\ k \notin DOMAIN self[1].generation_kwargs) =>
                           k \notin DOMAIN kwargs]_vars

\* C10's case: a run was given an option that differs from the component's
\* default of the same name, and the component still holds its default.
C10_Witness ==
    /\ op = "run"
    /\ \E k \in DOMAIN Given \cap DOMAIN Defaults : Given[k] # Defaults[k]
    /\ args.generation_kwargs = args.given
====
